---------------------------- MODULE Spec2Model ----------------------------
(***************************************************************************)
(* Delivery-pattern analysis (src/src/main.py): spreadsheet ingestion      *)
(* (find_date_in_sheet, process_files), pattern analysis                   *)
(* (analyze_patterns) and the __main__ driver.                             *)
(*                                                                         *)
(* Cells are held as the text str(cell) gives (an empty cell is "nan").    *)
(* Dates are held as proleptic Gregorian ordinals (date.toordinal()), so   *)
(* a timedelta of n days is +n.  Floats are held as records                *)
(* [k |-> "fin" | "inf" | "nan", v |-> Int]; the text alphabet of the      *)
(* quantity cells has no decimal point, so finite values are integers.     *)
(* A mean is held exactly as the pair sum/count.                           *)
(***************************************************************************)
EXTENDS Integers, Sequences, FiniteSets, TLC

(***************************************************************************)
(* Python str operations, character by character.                          *)
(***************************************************************************)
LOWERS == "abcdefghijklmnopqrstuvwxyz"
UPPERS == "ABCDEFGHIJKLMNOPQRSTUVWXYZ"
DIGITS == "0123456789"

CharAt(s, i) == SubSeq(s, i, i)

LowerSet == {CharAt(LOWERS, i) : i \in 1..Len(LOWERS)}
UpperSet == {CharAt(UPPERS, i) : i \in 1..Len(UPPERS)}
DigitSet == {CharAt(DIGITS, i) : i \in 1..Len(DIGITS)}

IsLower(c) == c \in LowerSet
IsUpper(c) == c \in UpperSet
IsAlpha(c) == IsLower(c) \/ IsUpper(c)
IsDigit(c) == c \in DigitSet
IsSpace(c) == c = " "

ToUpper == [c \in LowerSet |->
               CharAt(UPPERS, CHOOSE i \in 1..Len(LOWERS) : CharAt(LOWERS, i) = c)]
ToLower == [c \in UpperSet |->
               CharAt(LOWERS, CHOOSE i \in 1..Len(UPPERS) : CharAt(UPPERS, i) = c)]
DigitValue == [c \in DigitSet |->
                  (CHOOSE i \in 1..Len(DIGITS) : CharAt(DIGITS, i) = c) - 1]

UpperChar(c) == IF IsLower(c) THEN ToUpper[c] ELSE c
LowerChar(c) == IF IsUpper(c) THEN ToLower[c] ELSE c

RECURSIVE str_upper(_)
str_upper(s) ==
    IF s = "" THEN ""
    ELSE UpperChar(CharAt(s, 1)) \o str_upper(SubSeq(s, 2, Len(s)))

RECURSIVE str_lower(_)
str_lower(s) ==
    IF s = "" THEN ""
    ELSE LowerChar(CharAt(s, 1)) \o str_lower(SubSeq(s, 2, Len(s)))

RECURSIVE lstrip(_)
lstrip(s) ==
    IF s # "" /\ IsSpace(CharAt(s, 1)) THEN lstrip(SubSeq(s, 2, Len(s))) ELSE s

RECURSIVE rstrip(_)
rstrip(s) ==
    IF s # "" /\ IsSpace(CharAt(s, Len(s)))
    THEN rstrip(SubSeq(s, 1, Len(s) - 1)) ELSE s

str_strip(s) == rstrip(lstrip(s))

\* str.title(): a letter is upper-cased unless the character before it is a
\* letter, in which case it is lower-cased
RECURSIVE TitleFrom(_, _)
TitleFrom(s, prevCased) ==
    IF s = "" THEN ""
    ELSE LET c == CharAt(s, 1)
         IN (IF IsAlpha(c)
             THEN (IF prevCased THEN LowerChar(c) ELSE UpperChar(c))
             ELSE c) \o TitleFrom(SubSeq(s, 2, Len(s)), IsAlpha(c))

str_title(s) == TitleFrom(s, FALSE)

\* pat in s
str_in(pat, s) ==
    \E i \in 1..(Len(s) - Len(pat) + 1) : SubSeq(s, i, i + Len(pat) - 1) = pat

str_startswith(s, k) == Len(k) <= Len(s) /\ SubSeq(s, 1, Len(k)) = k

\* s.replace(old, new) for a one-character old
RECURSIVE str_replace(_, _, _)
str_replace(s, old, new) ==
    IF s = "" THEN ""
    ELSE (IF CharAt(s, 1) = old THEN new ELSE CharAt(s, 1))
         \o str_replace(SubSeq(s, 2, Len(s)), old, new)

\* " ".join(cells)
RECURSIVE join(_)
join(cells) ==
    IF Len(cells) = 0 THEN ""
    ELSE IF Len(cells) = 1 THEN cells[1]
    ELSE cells[1] \o " " \o join(Tail(cells))

AllDigits(s) == s # "" /\ \A i \in 1..Len(s) : IsDigit(CharAt(s, i))

\* int(s) for a string of digits
RECURSIVE int_of(_)
int_of(s) ==
    IF s = "" THEN 0
    ELSE 10 * int_of(SubSeq(s, 1, Len(s) - 1))
         + DigitValue[CharAt(s, Len(s))]

(***************************************************************************)
(* Calendar: datetime ordinals and weekdays.                               *)
(***************************************************************************)
is_leap(y) == (y % 4 = 0) /\ ((y % 100 # 0) \/ (y % 400 = 0))

days_in_month(y, m) ==
    IF m = 2 THEN (IF is_leap(y) THEN 29 ELSE 28)
    ELSE IF m \in {4, 6, 9, 11} THEN 30 ELSE 31

RECURSIVE days_before_month(_, _)
days_before_month(y, m) ==
    IF m = 1 THEN 0
    ELSE days_before_month(y, m - 1) + days_in_month(y, m - 1)

valid_ymd(y, m, d) ==
    /\ y >= 1 /\ y <= 9999
    /\ m >= 1 /\ m <= 12
    /\ d >= 1 /\ d <= days_in_month(y, m)

\* date(y, m, d).toordinal()
toordinal(y, m, d) ==
    (y - 1) * 365 + ((y - 1) \div 4) - ((y - 1) \div 100) + ((y - 1) \div 400)
    + days_before_month(y, m) + d

\* strftime('%A') of the date with ordinal n
WEEKDAYS ==
    <<"Monday", "Tuesday", "Wednesday", "Thursday", "Friday", "Saturday",
      "Sunday">>
day_name(n) == WEEKDAYS[((n + 6) % 7) + 1]


(***************************************************************************)
(* find_date_in_sheet.  A result is [kind |-> "date", ord |-> n], or       *)
(* kind "none" (the function returns None) or kind "raise" (an exception   *)
(* leaves the function), both with ord 0.                                  *)
(***************************************************************************)
NoDate == [kind |-> "none", ord |-> 0]
Raised == [kind |-> "raise", ord |-> 0]
DateOf(n) == [kind |-> "date", ord |-> n]

\* number of rows of the grid that the content scan reads
SCAN_ROWS == 15

\* the year the sheet-name fallback assumes
ASSUMED_YEAR == 2025

\* bounds of a nanosecond pd.Timestamp
TS_MIN == toordinal(1677, 9, 22)
TS_MAX == toordinal(2262, 4, 11)

\* pd.to_datetime of year, month, day: a Timestamp or an exception
to_datetime_ymd(y, m, d) ==
    IF valid_ymd(y, m, d) /\ toordinal(y, m, d) >= TS_MIN
       /\ toordinal(y, m, d) <= TS_MAX
    THEN DateOf(toordinal(y, m, d))
    ELSE Raised

\* r'(\d{4}-\d{2}-\d{2})' matches s at position i
IsoAt(s, i) ==
    /\ i + 9 <= Len(s)
    /\ AllDigits(SubSeq(s, i, i + 3))
    /\ CharAt(s, i + 4) = "-"
    /\ AllDigits(SubSeq(s, i + 5, i + 6))
    /\ CharAt(s, i + 7) = "-"
    /\ AllDigits(SubSeq(s, i + 8, i + 9))

\* re.search: the leftmost match, "" when there is none
re_search_iso(s) ==
    IF \E i \in 1..Len(s) : IsoAt(s, i)
    THEN LET i == CHOOSE k \in 1..Len(s) :
                      IsoAt(s, k) /\ \A j \in 1..(k - 1) : ~IsoAt(s, j)
         IN SubSeq(s, i, i + 9)
    ELSE ""

to_datetime_iso(tok) ==
    to_datetime_ymd(int_of(SubSeq(tok, 1, 4)), int_of(SubSeq(tok, 6, 7)),
                    int_of(SubSeq(tok, 9, 10)))

\* r'(\d{1,2}/\d{1,2}/\d{2,4})' matches s at i with group lengths a, b, c
SlashAtWith(s, i, a, b, c) ==
    /\ i + a + b + c + 1 <= Len(s)
    /\ AllDigits(SubSeq(s, i, i + a - 1))
    /\ CharAt(s, i + a) = "/"
    /\ AllDigits(SubSeq(s, i + a + 1, i + a + b))
    /\ CharAt(s, i + a + b + 1) = "/"
    /\ AllDigits(SubSeq(s, i + a + b + 2, i + a + b + c + 1))

SlashLens(s, i) ==
    {t \in (1..2) \X (1..2) \X (2..4) : SlashAtWith(s, i, t[1], t[2], t[3])}

SlashAt(s, i) == SlashLens(s, i) # {}

\* the leftmost match, each group as long as it can be; "" when none
re_search_slash(s) ==
    IF \E i \in 1..Len(s) : SlashAt(s, i)
    THEN LET i == CHOOSE k \in 1..Len(s) :
                      SlashAt(s, k) /\ \A j \in 1..(k - 1) : ~SlashAt(s, j)
             t == CHOOSE u \in SlashLens(s, i) :
                      \A w \in SlashLens(s, i) :
                          \/ w[1] < u[1]
                          \/ (w[1] = u[1] /\ w[2] < u[2])
                          \/ (w[1] = u[1] /\ w[2] = u[2] /\ w[3] <= u[3])
         IN SubSeq(s, i, i + t[1] + t[2] + t[3] + 1)
    ELSE ""

\* position of the n-th "/" of a slash token
RECURSIVE SlashPos(_, _, _)
SlashPos(tok, n, from) ==
    IF CharAt(tok, from) = "/"
    THEN (IF n = 1 THEN from ELSE SlashPos(tok, n - 1, from + 1))
    ELSE SlashPos(tok, n, from + 1)

\* pd.to_datetime of a slash token: month first, day first when the first
\* number cannot be a month; a two-digit year is taken within 50 years of
\* the operating year; a three-digit year is out of Timestamp bounds
to_datetime_slash(tok) ==
    LET p1 == SlashPos(tok, 1, 1)
        p2 == SlashPos(tok, 2, 1)
        a  == int_of(SubSeq(tok, 1, p1 - 1))
        b  == int_of(SubSeq(tok, p1 + 1, p2 - 1))
        ys == SubSeq(tok, p2 + 1, Len(tok))
        y  == IF Len(ys) = 2
              THEN (IF int_of(ys) <= 75 THEN 2000 + int_of(ys)
                    ELSE 1900 + int_of(ys))
              ELSE int_of(ys)
    IN IF a > 12 /\ b >= 1 /\ b <= 12
       THEN to_datetime_ymd(y, b, a)
       ELSE to_datetime_ymd(y, a, b)

\* ScanRows with the ISO pattern tried on every scanned row before the
\* slash pattern is tried on any
RECURSIVE SlashRows(_, _)
SlashRows(df, i) ==
    IF i > Len(df) \/ i > SCAN_ROWS THEN NoDate
    ELSE LET match_alt == re_search_slash(join(df[i]))
         IN IF match_alt # "" /\ to_datetime_slash(match_alt).kind = "date"
            THEN to_datetime_slash(match_alt)
            ELSE SlashRows(df, i + 1)

ScanRows_IsoFirst(df, i) ==
    LET last == IF Len(df) < SCAN_ROWS THEN Len(df) ELSE SCAN_ROWS
        iso  == {j \in i..last : re_search_iso(join(df[j])) # ""}
    IN IF iso # {}
       THEN to_datetime_iso(re_search_iso(
                join(df[CHOOSE j \in iso : \A k \in iso : j <= k])))
       ELSE SlashRows(df, i)

\* lines 35-48: the content scan from row i on; "none" when it runs out
RECURSIVE ScanRows(_, _)
ScanRows(df, i) ==
    IF i > Len(df) \/ i > SCAN_ROWS THEN NoDate
    ELSE LET row_str   == join(df[i])
             match     == re_search_iso(row_str)
             match_alt == re_search_slash(row_str)
         IN IF match # "" THEN to_datetime_iso(match)
            ELSE IF match_alt # "" /\ to_datetime_slash(match_alt).kind = "date"
            THEN to_datetime_slash(match_alt)
            ELSE ScanRows(df, i + 1)

MONTH_MAP ==
    << <<"JAN", 1>>, <<"FEB", 2>>, <<"MAR", 3>>, <<"APR", 4>>, <<"MAY", 5>>,
       <<"JUN", 6>>, <<"JUL", 7>>, <<"AUG", 8>>, <<"SEP", 9>>, <<"OCT", 10>>,
       <<"NOV", 11>>, <<"DEC", 12>>, <<"SEPT", 9>> >>

\* end of the run of A-Z letters that starts at i
RECURSIVE RunEnd(_, _)
RunEnd(s, i) ==
    IF i < Len(s) /\ IsUpper(CharAt(s, i + 1)) THEN RunEnd(s, i + 1) ELSE i

RECURSIVE SkipSpaces(_, _)
SkipSpaces(s, i) ==
    IF i <= Len(s) /\ IsSpace(CharAt(s, i)) THEN SkipSpaces(s, i + 1) ELSE i

\* r'([A-Z]+)\s*(\d{1,2})' matches s at position i
NameAt(s, i) ==
    /\ IsUpper(CharAt(s, i))
    /\ LET k == SkipSpaces(s, RunEnd(s, i) + 1)
       IN k <= Len(s) /\ IsDigit(CharAt(s, k))

\* lines 51-68: the sheet-name fallback
ParseSheetName(sheet_name) ==
    LET clean_name == str_strip(str_replace(str_upper(sheet_name), ".", " "))
    IN IF ~(\E i \in 1..Len(clean_name) : NameAt(clean_name, i)) THEN NoDate
       ELSE LET i == CHOOSE k \in 1..Len(clean_name) :
                         /\ NameAt(clean_name, k)
                         /\ \A j \in 1..(k - 1) : ~NameAt(clean_name, j)
                e == RunEnd(clean_name, i)
                k == SkipSpaces(clean_name, e + 1)
                m_str == SubSeq(clean_name, i, e)
                d_str == IF k < Len(clean_name) /\ IsDigit(CharAt(clean_name, k + 1))
                         THEN SubSeq(clean_name, k, k + 1)
                         ELSE SubSeq(clean_name, k, k)
                hits == {n \in 1..Len(MONTH_MAP) :
                             str_startswith(m_str, MONTH_MAP[n][1])}
            IN IF hits = {} THEN NoDate
               ELSE LET n == CHOOSE h \in hits : \A g \in hits : h <= g
                        v == MONTH_MAP[n][2]
                    IN IF valid_ymd(ASSUMED_YEAR, v, int_of(d_str))
                       THEN DateOf(toordinal(ASSUMED_YEAR, v, int_of(d_str)))
                       ELSE NoDate

find_date_in_sheet(df, sheet_name) ==
    LET found == ScanRows(df, 1)
    IN IF found.kind = "none" THEN ParseSheetName(sheet_name) ELSE found

(***************************************************************************)
(* process_files: one sheet of one workbook (lines 88-154).                *)
(***************************************************************************)
\* lines 18-27, in the order the dict is written (the order items() gives)
PRODUCT_MAP ==
    << <<"LD", "LD">>, <<"LD-DYED", "LD-Dyed">>, <<"LD - DYED", "LD-Dyed">>,
       <<"UR", "UR">>, <<"LP", "LP">>, <<"UNLEADED", "UR">>,
       <<"RED DIESEL", "LD-Dyed">>, <<"CLEAR DIESEL", "LD">> >>

\* lines 142-146: the value of the first key that is a substring of prod
CleanProduct(prod) ==
    LET hits == {n \in 1..Len(PRODUCT_MAP) : str_in(PRODUCT_MAP[n][1], prod)}
    IN IF hits = {} THEN prod
       ELSE PRODUCT_MAP[CHOOSE h \in hits : \A g \in hits : h <= g][2]

\* float(s) for the texts the quantity cells hold: a signed run of digits is
\* a finite integer value, "inf", "infinity" and "nan" in any case are the
\* special values, and every other text is k = "err" for ValueError (texts
\* with a decimal point, an exponent or an underscore are not drawn)
Fin(n) == [k |-> "fin", v |-> n]
float_of(s) ==
    LET t    == str_strip(s)
        neg  == t # "" /\ CharAt(t, 1) = "-"
        sgn  == t # "" /\ CharAt(t, 1) \in {"-", "+"}
        body == IF sgn THEN SubSeq(t, 2, Len(t)) ELSE t
        low  == str_lower(body)
    IN IF AllDigits(body)
       THEN Fin(IF neg THEN 0 - int_of(body) ELSE int_of(body))
       ELSE IF low \in {"inf", "infinity"}
       THEN [k |-> "inf", v |-> IF neg THEN 0 - 1 ELSE 1]
       ELSE IF low = "nan" THEN [k |-> "nan", v |-> 0]
       ELSE [k |-> "err", v |-> 0]

\* x > 0 for a float
float_gt0(x) == (x.k = "fin" /\ x.v > 0) \/ (x.k = "inf" /\ x.v > 0)

\* x + y for floats
float_add(x, y) ==
    IF x.k = "nan" \/ y.k = "nan" THEN [k |-> "nan", v |-> 0]
    ELSE IF x.k = "inf" /\ y.k = "inf"
    THEN (IF x.v = y.v THEN x ELSE [k |-> "nan", v |-> 0])
    ELSE IF x.k = "inf" THEN x
    ELSE IF y.k = "inf" THEN y
    ELSE Fin(x.v + y.v)

\* line 90: a short sheet with a default name is skipped
SHORT_SHEET == 5
SkipSheet(sheet_name, df_raw) ==
    str_in("sheet", str_lower(sheet_name)) /\ Len(df_raw) < SHORT_SHEET

\* lines 100-105: index of the first row that names both fields, 0 for the
\* code's -1
IsHeaderRow(row) ==
    LET row_str == str_lower(join(row))
    IN str_in("customer name", row_str) /\ str_in("product", row_str)

FindHeader(df_raw) ==
    IF \E i \in 1..Len(df_raw) : IsHeaderRow(df_raw[i])
    THEN CHOOSE i \in 1..Len(df_raw) :
             IsHeaderRow(df_raw[i]) /\ \A j \in 1..(i - 1) : ~IsHeaderRow(df_raw[j])
    ELSE 0

\* line 113
ColumnNames(header) == [c \in 1..Len(header) |-> str_title(str_strip(header[c]))]

\* next(..., None) and gal_cols[0]: the first of the columns S, 0 for None
FirstCol(S) == IF S = {} THEN 0 ELSE CHOOSE c \in S : \A d \in S : c <= d

\* lines 116-119
IsCustomer(c) == str_in("Customer", c)
IsProduct(c)  == str_in("Product", c)
IsQuantity(c) == str_in("Gallons", c) \/ str_in("Qty", c)

\* GalCol with every "Gallons" column taken before any "Qty" column
IsGallons(c) == str_in("Gallons", c)
GalCol_GallonsFirst(columns) ==
    IF \E c \in 1..Len(columns) : IsGallons(columns[c])
    THEN FirstCol({c \in 1..Len(columns) : IsGallons(columns[c])})
    ELSE FirstCol({c \in 1..Len(columns) : IsQuantity(columns[c])})

CustCol(columns) == FirstCol({c \in 1..Len(columns) : IsCustomer(columns[c])})
ProdCol(columns) == FirstCol({c \in 1..Len(columns) : IsProduct(columns[c])})
GalCol(columns) == FirstCol({c \in 1..Len(columns) : IsQuantity(columns[c])})

\* line 128
RejectCustomer(cust) ==
    cust \in {"NAN", "", "TOTAL", "GRAND TOTAL", "NONE"} \/ str_in("SUM OF", cust)

\* lines 125-154 for one data row: the records it appends (none or one)
RowRecords(row, cust_col, prod_col, gal_col, file_date, source) ==
    LET cust    == str_upper(str_strip(row[cust_col]))
        prod    == str_upper(str_strip(row[prod_col]))
        gallons == float_of(str_replace(row[gal_col], ",", ""))
    IN IF RejectCustomer(cust) THEN <<>>
       ELSE IF gallons.k = "err" THEN <<>>
       ELSE IF ~float_gt0(gallons) THEN <<>>
       ELSE << [Date |-> file_date, Customer |-> cust,
                Product |-> CleanProduct(prod), Gallons |-> gallons,
                Source_File |-> source] >>

RECURSIVE RowsFrom(_, _, _, _, _, _, _)
RowsFrom(df_raw, i, cust_col, prod_col, gal_col, file_date, source) ==
    IF i > Len(df_raw) THEN <<>>
    ELSE RowRecords(df_raw[i], cust_col, prod_col, gal_col, file_date, source)
         \o RowsFrom(df_raw, i + 1, cust_col, prod_col, gal_col, file_date, source)

\* lines 88-154 for one sheet: the records it appends to all_data, and
\* whether an exception leaves the loop over the sheets
ProcessSheet(fname, sheet_name, df_raw) ==
    IF SkipSheet(sheet_name, df_raw) THEN [raised |-> FALSE, records |-> <<>>]
    ELSE LET file_date  == find_date_in_sheet(df_raw, sheet_name)
             header_idx == FindHeader(df_raw)
             columns    == ColumnNames(df_raw[header_idx])
         IN IF file_date.kind = "raise" THEN [raised |-> TRUE, records |-> <<>>]
            ELSE IF file_date.kind = "none" THEN [raised |-> FALSE, records |-> <<>>]
            ELSE IF header_idx = 0 THEN [raised |-> FALSE, records |-> <<>>]
            ELSE IF CustCol(columns) = 0 \/ ProdCol(columns) = 0 \/ GalCol(columns) = 0
            THEN [raised |-> FALSE, records |-> <<>>]
            ELSE [raised |-> FALSE,
                  records |-> RowsFrom(df_raw, header_idx + 1, CustCol(columns),
                                       ProdCol(columns), GalCol(columns),
                                       file_date.ord,
                                       fname \o " - " \o sheet_name)]

(***************************************************************************)
(* analyze_patterns: one (Customer, Product) group (lines 172-217).        *)
(***************************************************************************)
\* the characters of the cell texts, in code-point order
ASCII == " #&'()+,-./0123456789:ABCDEFGHIJKLMNOPQRSTUVWXYZ_abcdefghijklmnopqrstuvwxyz"
CodePoint == [c \in {CharAt(ASCII, i) : i \in 1..Len(ASCII)} |->
                 CHOOSE i \in 1..Len(ASCII) : CharAt(ASCII, i) = c]

\* s < t for Python strings
RECURSIVE str_lt(_, _)
str_lt(s, t) ==
    IF t = "" THEN FALSE
    ELSE IF s = "" THEN TRUE
    ELSE IF CharAt(s, 1) = CharAt(t, 1)
    THEN str_lt(SubSeq(s, 2, Len(s)), SubSeq(t, 2, Len(t)))
    ELSE CodePoint[CharAt(s, 1)] < CodePoint[CharAt(t, 1)]

\* str(n) for n >= 0
RECURSIVE str_of_int(_)
str_of_int(n) ==
    IF n < 10 THEN CharAt(DIGITS, n + 1)
    ELSE str_of_int(n \div 10) \o CharAt(DIGITS, (n % 10) + 1)

Pad2(n) == IF n < 10 THEN "0" \o str_of_int(n) ELSE str_of_int(n)
Pad4(n) ==
    IF n < 10 THEN "000" \o str_of_int(n)
    ELSE IF n < 100 THEN "00" \o str_of_int(n)
    ELSE IF n < 1000 THEN "0" \o str_of_int(n)
    ELSE str_of_int(n)

\* strftime('%Y-%m-%d') of the date with ordinal n
strftime_ymd(n) ==
    LET y == CHOOSE c \in (n \div 366)..((n \div 365) + 1) :
                 c >= 1 /\ toordinal(c, 1, 1) <= n /\ n < toordinal(c + 1, 1, 1)
        m == CHOOSE c \in 1..12 :
                 /\ toordinal(y, c, 1) <= n
                 /\ n < toordinal(y, c, 1) + days_in_month(y, c)
    IN Pad4(y) \o "-" \o Pad2(m) \o "-" \o Pad2(n - toordinal(y, m, 1) + 1)

\* line 170: the keys of the groups, in the sorted order groupby gives
KeyOf(r) == <<r.Customer, r.Product>>
KeyLt(a, b) == str_lt(a[1], b[1]) \/ (a[1] = b[1] /\ str_lt(a[2], b[2]))

RECURSIVE SortKeys(_)
SortKeys(K) ==
    IF K = {} THEN <<>>
    ELSE LET m == CHOOSE a \in K : \A b \in K \ {a} : KeyLt(a, b)
         IN <<m>> \o SortKeys(K \ {m})

GroupKeys(df) == SortKeys({KeyOf(df[i]) : i \in 1..Len(df)})

\* the rows of df that belong to the group, in df's order
RECURSIVE GroupRows(_, _)
GroupRows(df, key) ==
    IF df = <<>> THEN <<>>
    ELSE (IF KeyOf(Head(df)) = key THEN <<Head(df)>> ELSE <<>>)
         \o GroupRows(Tail(df), key)

\* line 173: sorted(group['Date'].unique())
RECURSIVE SortInts(_)
SortInts(S) ==
    IF S = {} THEN <<>>
    ELSE LET m == CHOOSE a \in S : \A b \in S : a <= b
         IN <<m>> \o SortInts(S \ {m})

UniqueDates(group) == SortInts({group[i].Date : i \in 1..Len(group)})

\* SumGallons over one record a day, the rest of the day dropped
RECURSIVE SumGallons_OnePerDay(_)
SumGallons_OnePerDay(group) ==
    IF group = <<>> THEN Fin(0)
    ELSE LET front == SubSeq(group, 1, Len(group) - 1)
             r     == group[Len(group)]
         IN IF \E i \in 1..Len(front) : front[i].Date = r.Date
            THEN SumGallons_OnePerDay(front)
            ELSE float_add(r.Gallons, SumGallons_OnePerDay(front))

\* line 175: group['Gallons'].sum()
RECURSIVE SumGallons(_)
SumGallons(group) ==
    IF group = <<>> THEN Fin(0)
    ELSE float_add(Head(group).Gallons, SumGallons(Tail(group)))

\* line 185-186: the sum of the day gaps; their mean is IntervalSum / (count-1)
RECURSIVE IntervalSum(_)
IntervalSum(dates) ==
    IF Len(dates) < 2 THEN 0
    ELSE (dates[2] - dates[1]) + IntervalSum(Tail(dates))

\* int(avg_days) for the mean num / den of non-negative gaps
IntOfMean(num, den) == num \div den

\* lines 189-196
FrequencyLabel(num, den) ==
    IF 5 * den <= num /\ num <= 9 * den THEN "Weekly"
    ELSE IF 12 * den <= num /\ num <= 16 * den THEN "Bi-Weekly"
    ELSE IF 25 * den <= num /\ num <= 35 * den THEN "Monthly"
    ELSE "Custom (" \o str_of_int(IntOfMean(num, den)) \o " days)"

\* line 199: the ordinal of last_delivery + timedelta(days=int(avg_days))
NextDelivery(last_delivery, num, den) == last_delivery + IntOfMean(num, den)

\* line 211: round(avg_days, 1), in tenths of a day; a tie is a binary
\* fraction for every count below 21 and goes to the even tenth
RoundTenths(num, den) ==
    LET q == (10 * num) \div den
        r == (10 * num) % den
    IN IF 2 * r > den \/ (2 * r = den /\ q % 2 = 1) THEN q + 1 ELSE q

\* line 204
DaysOfWeek(dates) == [i \in 1..Len(dates) |-> day_name(dates[i])]

CountOf(seq, x) == Cardinality({i \in 1..Len(seq) : seq[i] = x})

\* line 205: max(set(days_of_week), key=days_of_week.count) is the first
\* weekday of highest count in the iteration order of a set of str, which
\* follows the per-process string hash: any of the weekdays of highest count
PatternDays(dates) ==
    LET days_of_week == DaysOfWeek(dates)
    IN {days_of_week[i] : i \in {j \in 1..Len(dates) :
            \A k \in 1..Len(dates) :
                CountOf(days_of_week, days_of_week[k])
                    <= CountOf(days_of_week, days_of_week[j])}}

\* lines 173-217: the summary row of one group, given the weekday that line
\* 205 yields
GroupSummary(df, key, pattern_day) ==
    LET group == GroupRows(df, key)
        dates == UniqueDates(group)
        count == Len(dates)
        last_delivery == dates[count]
        num == IntervalSum(dates)
        den == count - 1
    IN [Customer |-> key[1],
        Product |-> key[2],
        Frequency |-> IF count > 1 THEN FrequencyLabel(num, den)
                      ELSE "Irregular/One-off",
        AvgInterval |-> IF count > 1 THEN RoundTenths(num, den) ELSE 0,
        PatternDay |-> IF count >= 3 THEN pattern_day ELSE "N/A",
        LastDelivery |-> strftime_ymd(last_delivery),
        ForecastedDate |-> IF count > 1
                           THEN strftime_ymd(NextDelivery(last_delivery, num, den))
                           ELSE "N/A",
        TotalDeliveries |-> count,
        TotalGallons |-> SumGallons(group)]

(***************************************************************************)
(* The run: __main__ (lines 221-243) over process_files (72-160) and       *)
(* analyze_patterns (162-219).                                             *)
(***************************************************************************)
VARIABLES
    pc,            \* where the run is
    all_files,     \* line 74: the workbooks glob found, in glob's order
    fi,            \* position of the loop of line 82 in all_files
    si,            \* position of the loop of line 88 in the workbook's sheets
    all_data,      \* line 80
    df_raw,        \* line 223
    gi,            \* position of the loop of line 172 in the groups
    summary_list,  \* line 167
    df_summary,    \* line 229
    report,        \* lines 237-239: the workbook written
    args,          \* arguments of a function called on its own
    result         \* what that call returned

vars == <<pc, all_files, fi, si, all_data, df_raw, gi, summary_list,
          df_summary, report, args, result>>

NoReport == [written |-> FALSE, Summary |-> <<>>, RawData |-> <<>>]
NoArgs   == <<>>

(***************************************************************************)
(* Inputs.                                                                 *)
(***************************************************************************)
MaxSheets   == 2   \* sheets per workbook
MaxRecords  == 4   \* records handed to analyze_patterns on its own
MaxDateRows == 2   \* rows drawn for find_date_in_sheet on its own
MaxCols     == 4   \* header cells drawn for a sheet on its own

\* all sequences without repetition of at most n elements of S
RECURSIVE DistinctSeqs(_, _)
DistinctSeqs(S, n) ==
    IF n = 0 THEN {<<>>}
    ELSE LET shorter == DistinctSeqs(S, n - 1)
         IN shorter \cup {q \in {Append(r, x) : r \in shorter, x \in S} :
                              \A i, j \in 1..Len(q) : i # j => q[i] # q[j]}

\* all sequences of at most n elements of S
RECURSIVE SeqsUpTo(_, _)
SeqsUpTo(S, n) ==
    IF n = 0 THEN {<<>>}
    ELSE LET shorter == SeqsUpTo(S, n - 1)
         IN shorter \cup {Append(q, x) : q \in shorter, x \in S}

HeaderRow == <<"Customer Name", "PRODUCT", "qty">>

SheetPool ==
    { [sheet_name |-> "JAN 8",
       df |-> << <<"Daily Log", "nan", "nan">>,
                 HeaderRow,
                 <<"acme ", "Red Diesel Bulk", "1,250">>,
                 <<"Total", "nan", "1250">>,
                 <<"Bolt", " ", "40">> >>],
      [sheet_name |-> "Week 3",
       df |-> << <<"Date: 2025-01-15", "nan", "nan">>,
                 HeaderRow,
                 <<"ACME", "ld-dyed", "500">>,
                 <<"Acme", "Unleaded", "inf">>,
                 <<"Bolt", "UR", "abc">> >>],
      [sheet_name |-> "Notes",
       df |-> << <<"Printed 1/22/2025", "nan", "nan">>,
                 <<"Customer", "Item", "Qty">>,
                 <<"ACME", "UR", "75">> >>],
      [sheet_name |-> "Orders",
       df |-> << <<"Ref 2025-13-45", "nan", "nan">>,
                 HeaderRow,
                 <<"ACME", "UR", "60">> >>],
      [sheet_name |-> "Sheet1",
       df |-> << <<"Date: 2025-01-29", "nan", "nan">>,
                 HeaderRow,
                 <<"ACME", "UR", "90">> >>] }

FileNames == {"a.xlsx", "b.xlsx"}

\* what pd.read_excel gives for a file: its sheets in order, or an exception
Workbooks ==
    {[name |-> n, readable |-> TRUE, sheets |-> ss] :
         n \in FileNames, ss \in DistinctSeqs(SheetPool, MaxSheets)}
    \cup {[name |-> n, readable |-> FALSE, sheets |-> <<>>] : n \in FileNames}

\* what glob finds: workbooks of distinct names, here in the order of the names
Directories ==
    {q \in DistinctSeqs(Workbooks, Cardinality(FileNames)) :
         \A i, j \in 1..Len(q) : i < j => str_lt(q[i].name, q[j].name)}

Init ==
    /\ pc = "start"
    /\ all_files \in Directories
    /\ fi = 0
    /\ si = 0
    /\ all_data = <<>>
    /\ df_raw = <<>>
    /\ gi = 0
    /\ summary_list = <<>>
    /\ df_summary = <<>>
    /\ report = NoReport
    /\ args = NoArgs
    /\ result = NoArgs

(***************************************************************************)
(* process_files.                                                          *)
(***************************************************************************)
\* lines 74-80: no file ends the function with an empty frame
Glob ==
    /\ pc = "start"
    /\ IF all_files = <<>>
       THEN pc' = "extracted" /\ fi' = fi
       ELSE pc' = "file" /\ fi' = 1
    /\ UNCHANGED <<all_files, si, all_data, df_raw, gi, summary_list,
                   df_summary, report, args, result>>

\* lines 82-86: read the next workbook; a failed read goes to the handler of
\* line 156 and on to the next file
ReadFile ==
    /\ pc = "file"
    /\ fi <= Len(all_files)
    /\ IF all_files[fi].readable
       THEN pc' = "sheet" /\ si' = 1 /\ fi' = fi
       ELSE pc' = "file" /\ si' = si /\ fi' = fi + 1
    /\ UNCHANGED <<all_files, all_data, df_raw, gi, summary_list, df_summary,
                   report, args, result>>

\* lines 88-158: one sheet; an exception in it goes to the handler of line
\* 156, which leaves the workbook
SheetStep ==
    /\ pc = "sheet"
    /\ si <= Len(all_files[fi].sheets)
    /\ LET sheet == all_files[fi].sheets[si]
           out   == ProcessSheet(all_files[fi].name, sheet.sheet_name, sheet.df)
       IN /\ all_data' = all_data \o out.records
          /\ IF out.raised
             THEN pc' = "file" /\ fi' = fi + 1 /\ si' = si
             ELSE pc' = "sheet" /\ fi' = fi /\ si' = si + 1
    /\ UNCHANGED <<all_files, df_raw, gi, summary_list, df_summary, report,
                   args, result>>

\* the loop of line 88 ends: next file
SheetsDone ==
    /\ pc = "sheet"
    /\ si > Len(all_files[fi].sheets)
    /\ pc' = "file"
    /\ fi' = fi + 1
    /\ UNCHANGED <<all_files, si, all_data, df_raw, gi, summary_list,
                   df_summary, report, args, result>>

\* line 160
ReturnData ==
    /\ pc = "file"
    /\ fi > Len(all_files)
    /\ pc' = "extracted"
    /\ UNCHANGED <<all_files, fi, si, all_data, df_raw, gi, summary_list,
                   df_summary, report, args, result>>

(***************************************************************************)
(* __main__.                                                               *)
(***************************************************************************)
\* HasData with the test of line 225 dropped
HasData_Always(df) == TRUE

\* line 225
HasData(df) == df # <<>>

\* lines 223-229 and 242-243
MainCheck ==
    /\ pc = "extracted"
    /\ df_raw' = all_data
    /\ pc' = IF HasData(all_data) THEN "analyze" ELSE "no_data"
    /\ UNCHANGED <<all_files, fi, si, all_data, gi, summary_list, df_summary,
                   report, args, result>>

\* lines 163-170
AnalyzeBegin ==
    /\ pc = "analyze"
    /\ IF df_raw = <<>>
       THEN pc' = "analyzed" /\ df_summary' = <<>> /\ gi' = gi
       ELSE pc' = "group" /\ df_summary' = df_summary /\ gi' = 1
    /\ summary_list' = <<>>
    /\ UNCHANGED <<all_files, fi, si, all_data, df_raw, report, args, result>>

\* lines 172-217
AnalyzeGroup ==
    /\ pc = "group"
    /\ gi <= Len(GroupKeys(df_raw))
    /\ LET key == GroupKeys(df_raw)[gi]
       IN \E pattern_day \in PatternDays(UniqueDates(GroupRows(df_raw, key))) :
              summary_list' =
                  Append(summary_list, GroupSummary(df_raw, key, pattern_day))
    /\ gi' = gi + 1
    /\ UNCHANGED <<pc, all_files, fi, si, all_data, df_raw, df_summary, report,
                   args, result>>

\* line 219
AnalyzeReturn ==
    /\ pc = "group"
    /\ gi > Len(GroupKeys(df_raw))
    /\ df_summary' = summary_list
    /\ pc' = "analyzed"
    /\ UNCHANGED <<all_files, fi, si, all_data, df_raw, gi, summary_list,
                   report, args, result>>

\* lines 232-241
Export ==
    /\ pc = "analyzed"
    /\ report' = [written |-> TRUE, Summary |-> df_summary, RawData |-> df_raw]
    /\ pc' = "done"
    /\ UNCHANGED <<all_files, fi, si, all_data, df_raw, gi, summary_list,
                   df_summary, args, result>>

Next ==
    \/ Glob
    \/ ReadFile
    \/ SheetStep
    \/ SheetsDone
    \/ ReturnData
    \/ MainCheck
    \/ AnalyzeBegin
    \/ AnalyzeGroup
    \/ AnalyzeReturn
    \/ Export

Spec == Init /\ [][Next]_vars

(***************************************************************************)
(* analyze_patterns on its own, over every frame of at most MaxRecords     *)
(* records of RecordPool.                                                  *)
(***************************************************************************)
Rec(cust, prod, month, day, gal) ==
    [Date |-> toordinal(ASSUMED_YEAR, month, day), Customer |-> cust,
     Product |-> prod, Gallons |-> Fin(gal), Source_File |-> "a.xlsx - LOG"]

RecordPool ==
    { Rec("ACME", "UR", 1, 1, 100), Rec("ACME", "UR", 1, 1, 250),
      Rec("ACME", "UR", 1, 2, 100), Rec("ACME", "UR", 1, 4, 100),
      Rec("ACME", "UR", 1, 8, 100), Rec("ACME", "UR", 1, 15, 100),
      Rec("BOLT", "UR", 1, 1, 40),  Rec("BOLT", "UR", 1, 31, 40),
      Rec("ACME", "LD", 1, 11, 75) }

InitAnalyze ==
    /\ pc = "analyze"
    /\ df_raw \in SeqsUpTo(RecordPool, MaxRecords)
    /\ all_files = <<>>
    /\ fi = 0
    /\ si = 0
    /\ all_data = <<>>
    /\ gi = 0
    /\ summary_list = <<>>
    /\ df_summary = <<>>
    /\ report = NoReport
    /\ args = NoArgs
    /\ result = NoArgs

NextAnalyze ==
    \/ AnalyzeBegin
    \/ AnalyzeGroup
    \/ AnalyzeReturn

SpecAnalyze == InitAnalyze /\ [][NextAnalyze]_vars

(***************************************************************************)
(* Properties of analyze_patterns.                                         *)
(***************************************************************************)
\* the delivery dates of a group, read from the frame
DatesOf(cust, prod) ==
    {df_raw[i].Date : i \in {j \in 1..Len(df_raw) :
         df_raw[j].Customer = cust /\ df_raw[j].Product = prod}}

MaxOf(S) == CHOOSE a \in S : \A b \in S : b <= a
MinOf(S) == CHOOSE a \in S : \A b \in S : a <= b

\* the mean day gap of a group is GapSum / GapCount: the gaps between
\* consecutive dates add up to last - first
GapSum(cust, prod)   == MaxOf(DatesOf(cust, prod)) - MinOf(DatesOf(cust, prod))
GapCount(cust, prod) == Cardinality(DatesOf(cust, prod)) - 1

\* round(num / den) to an integer, half up
RoundHalfUp(num, den) == (2 * num + den) \div (2 * den)

\* the gallons of the first n records of the frame that belong to the group
RECURSIVE GallonsUpTo(_, _, _)
GallonsUpTo(cust, prod, n) ==
    IF n = 0 THEN 0
    ELSE GallonsUpTo(cust, prod, n - 1)
         + (IF df_raw[n].Customer = cust /\ df_raw[n].Product = prod
            THEN df_raw[n].Gallons.v ELSE 0)

Summaries == {summary_list[i] : i \in 1..Len(summary_list)}

\* C3: for a group of at least two distinct dates with mean gap avg,
\* Frequency is Weekly iff 5 <= avg <= 9, Bi-Weekly iff 12 <= avg <= 16,
\* Monthly iff 25 <= avg <= 35, and otherwise Custom (N days) with
\* N = round(avg).
C3_FrequencyLabelRounds ==
    \A s \in Summaries :
        LET num == GapSum(s.Customer, s.Product)
            den == GapCount(s.Customer, s.Product)
            weekly   == 5 * den <= num /\ num <= 9 * den
            biweekly == 12 * den <= num /\ num <= 16 * den
            monthly  == 25 * den <= num /\ num <= 35 * den
        IN den >= 1 =>
            /\ (s.Frequency = "Weekly") <=> weekly
            /\ (s.Frequency = "Bi-Weekly") <=> biweekly
            /\ (s.Frequency = "Monthly") <=> monthly
            /\ ~(weekly \/ biweekly \/ monthly) =>
                   s.Frequency = "Custom (" \o str_of_int(RoundHalfUp(num, den))
                                 \o " days)"

\* C4: for a group of at least two distinct dates, Forecasted Date is the
\* last date plus round(mean gap) days, rounding half up.
C4_ForecastRoundsHalfUp ==
    \A s \in Summaries :
        LET num == GapSum(s.Customer, s.Product)
            den == GapCount(s.Customer, s.Product)
        IN den >= 1 =>
            s.ForecastedDate =
                strftime_ymd(MaxOf(DatesOf(s.Customer, s.Product))
                             + RoundHalfUp(num, den))

\* C6: Total Deliveries of every summary is the number of distinct dates of
\* its group and Total Gallons is the sum of the gallons of all the records
\* of the group, same-day records included; when the analysis returns there
\* is one summary for each group of the frame.
C6_DeliveriesDistinctGallonsAll ==
    /\ \A s \in Summaries :
           /\ s.TotalDeliveries = Cardinality(DatesOf(s.Customer, s.Product))
           /\ s.TotalGallons =
                  Fin(GallonsUpTo(s.Customer, s.Product, Len(df_raw)))
    /\ pc = "analyzed" =>
           /\ \A i \in 1..Len(df_raw) : \E s \in Summaries :
                  s.Customer = df_raw[i].Customer /\ s.Product = df_raw[i].Product
           /\ \A i, j \in 1..Len(summary_list) :
                  (/\ summary_list[i].Customer = summary_list[j].Customer
                   /\ summary_list[i].Product = summary_list[j].Product) => i = j

\* a group with two records on one day and a third on another has returned
C6_Witness ==
    /\ pc = "analyzed"
    /\ \E s \in Summaries :
           /\ s.TotalDeliveries = 2
           /\ Cardinality({i \in 1..Len(df_raw) :
                  df_raw[i].Customer = s.Customer
                  /\ df_raw[i].Product = s.Product}) = 3
           /\ s.TotalGallons = Fin(450)

\* the weekday of the earliest date among the dates whose weekday occurs
\* most often
EarliestTopDay(D) ==
    LET n(d) == Cardinality({e \in D : day_name(e) = day_name(d)})
        top  == {d \in D : \A e \in D : n(e) <= n(d)}
    IN day_name(MinOf(top))

\* C7: for a group of at least three distinct dates, Pattern Day is the
\* weekday that occurs most often, and among weekdays that tie the one that
\* occurs first in the sorted dates; being a function of the record set, it
\* is the same in every run.
C7_PatternDayEarliestTie ==
    \A s \in Summaries :
        Cardinality(DatesOf(s.Customer, s.Product)) >= 3 =>
            s.PatternDay = EarliestTopDay(DatesOf(s.Customer, s.Product))

(***************************************************************************)
(* find_date_in_sheet on its own: grids of filler rows followed by at most *)
(* MaxDateRows rows of DateRowPool, under the names of NamePool.           *)
(***************************************************************************)
DateRowPool ==
    { <<"Daily Log", "nan">>,
      <<"Date: 2025-01-08", "nan">>,
      <<"nan", "Printed 1/22/2025">>,
      <<"Ref 13/45/2025", "nan">>,
      <<"Ref 2025-13-45", "nan">>,
      <<"3/4/25", "2025-02-03">> }

NamePool == {"NOV 29", "Sept. 5", "Sheet1", "FEB 30"}

FillerRows(n) == [i \in 1..n |-> <<"nan", "nan">>]
FillerCounts == {0, SCAN_ROWS - 1, SCAN_ROWS}

InitDate ==
    /\ pc = "call_find_date"
    /\ args \in {[df |-> FillerRows(n) \o rows, sheet_name |-> name] :
                     n \in FillerCounts,
                     rows \in SeqsUpTo(DateRowPool, MaxDateRows),
                     name \in NamePool}
    /\ result = NoDate
    /\ all_files = <<>>
    /\ fi = 0
    /\ si = 0
    /\ all_data = <<>>
    /\ df_raw = <<>>
    /\ gi = 0
    /\ summary_list = <<>>
    /\ df_summary = <<>>
    /\ report = NoReport

\* line 94
CallFindDate ==
    /\ pc = "call_find_date"
    /\ result' = find_date_in_sheet(args.df, args.sheet_name)
    /\ pc' = "returned"
    /\ UNCHANGED <<all_files, fi, si, all_data, df_raw, gi, summary_list,
                   df_summary, report, args>>

SpecDate == InitDate /\ [][CallFindDate]_vars

\* the rows the content scan reads
Scanned == 1..(IF Len(args.df) < SCAN_ROWS THEN Len(args.df) ELSE SCAN_ROWS)
IsoOf(i) == re_search_iso(join(args.df[i]))
SlashOf(i) == re_search_slash(join(args.df[i]))
HasIso(i) == IsoOf(i) # ""
HasIsoDate(i) == HasIso(i) /\ to_datetime_iso(IsoOf(i)).kind = "date"
HasGoodSlash(i) ==
    SlashOf(i) # "" /\ to_datetime_slash(SlashOf(i)).kind = "date"

\* C9 as claimed: when a scanned row holds an ISO date the resolved date is
\* that of an ISO token, whatever slash token an earlier row holds.
C9_IsoBeatsEarlierSlash ==
    (pc = "returned" /\ \E i \in Scanned : HasIsoDate(i))
        => \E i \in Scanned : HasIsoDate(i) /\ result = to_datetime_iso(IsoOf(i))

\* C9 as the code has it: the first scanned row that holds an ISO token or a
\* slash token that parses decides; an ISO token of that row is taken before
\* its slash token, and converting it gives the date or raises; the sheet
\* name is used only when no scanned row decides.
C9_FirstDatedRowDecides ==
    pc = "returned" =>
        IF \E i \in Scanned : HasIso(i) \/ HasGoodSlash(i)
        THEN \E i \in Scanned :
                 /\ HasIso(i) \/ HasGoodSlash(i)
                 /\ \A j \in 1..(i - 1) : ~HasIso(j) /\ ~HasGoodSlash(j)
                 /\ result = IF HasIso(i) THEN to_datetime_iso(IsoOf(i))
                             ELSE to_datetime_slash(SlashOf(i))
        ELSE result = ParseSheetName(args.sheet_name)

\* a slash row above an ISO row: the slash date is returned
C9_Witness ==
    /\ pc = "returned"
    /\ Len(args.df) = 2
    /\ HasGoodSlash(1) /\ ~HasIso(1) /\ HasIso(2)
    /\ result = DateOf(toordinal(2025, 1, 22))

(***************************************************************************)
(* The sheet loop body on its own: a header row of at most MaxCols         *)
(* distinct cells of HeaderPool over one data row whose cell in column c   *)
(* is the text of 100 + c, in a sheet dated by its name.                   *)
(***************************************************************************)
HeaderPool ==
    {" customer name", "PRODUCT", "qty", "GALLONS", "Notes",
     "Subcustomer Name", "Byproduct"}

DataRow(n) == [c \in 1..n |-> str_of_int(100 + c)]

InitSheet ==
    /\ pc = "call_process_sheet"
    /\ args \in {[fname |-> "a.xlsx", sheet_name |-> "JAN 8",
                  df |-> <<header, DataRow(Len(header))>>] :
                     header \in DistinctSeqs(HeaderPool, MaxCols) \ {<<>>}}
    /\ result = [raised |-> FALSE, records |-> <<>>]
    /\ all_files = <<>>
    /\ fi = 0
    /\ si = 0
    /\ all_data = <<>>
    /\ df_raw = <<>>
    /\ gi = 0
    /\ summary_list = <<>>
    /\ df_summary = <<>>
    /\ report = NoReport

\* lines 88-154
CallProcessSheet ==
    /\ pc = "call_process_sheet"
    /\ result' = ProcessSheet(args.fname, args.sheet_name, args.df)
    /\ pc' = "returned"
    /\ UNCHANGED <<all_files, fi, si, all_data, df_raw, gi, summary_list,
                   df_summary, report, args>>

SpecSheet == InitSheet /\ [][CallProcessSheet]_vars

\* the titled names of the header row and the columns that contain a keyword
Names == ColumnNames(args.df[1])
ColsWith(word) == {c \in 1..Len(Names) : str_in(word, Names[c])}

\* C10 as claimed: when a column name contains "Gallons" the quantity is
\* read from the first such column, wherever the "Qty" columns are.
C10_GallonsBeforeQty ==
    (pc = "returned" /\ result.records # <<>> /\ ColsWith("Gallons") # {})
        => result.records[1].Gallons = Fin(100 + MinOf(ColsWith("Gallons")))

\* C10 as the code has it: the quantity is read from the first column, in
\* column order, whose name contains "Gallons" or "Qty"; the customer and
\* the product from the first column that contains their keyword; and a
\* sheet with one of the three unresolved, or without header row, gives no
\* record.
C10_FirstGallonsOrQtyColumn ==
    pc = "returned" =>
        LET Q == ColsWith("Gallons") \cup ColsWith("Qty")
            C == ColsWith("Customer")
            P == ColsWith("Product")
        IN IF IsHeaderRow(args.df[1]) /\ Q # {} /\ C # {} /\ P # {}
           THEN /\ Len(result.records) = 1
                /\ result.records[1].Gallons = Fin(100 + MinOf(Q))
                /\ result.records[1].Customer = str_of_int(100 + MinOf(C))
                /\ result.records[1].Product = str_of_int(100 + MinOf(P))
           ELSE result.records = <<>>

\* a "Qty" column left of a "Gallons" column: the quantity is the "Qty" cell
C10_Witness ==
    /\ pc = "returned"
    /\ ColsWith("Gallons") # {} /\ ColsWith("Qty") # {}
    /\ MinOf(ColsWith("Qty")) < MinOf(ColsWith("Gallons"))
    /\ Len(result.records) = 1
    /\ result.records[1].Gallons = Fin(100 + MinOf(ColsWith("Qty")))

(***************************************************************************)
(* The row loop body on its own, over every row of a customer cell, a      *)
(* product cell and a quantity cell of the pools.                          *)
(***************************************************************************)
CustomerCells ==
    {"acme ", "Total", "nan", " ", "Sum of Gallons", "Grand Total", "None"}
ProductCells ==
    {"LD", "LD-Dyed", "UR", "LP", "ld - dyed", "Unleaded", "Red Diesel Bulk",
     "Clear Diesel", "Kerosene", " ", "nan"}
QuantityCells == {"1,250", "abc", "0", "-3", "inf", "nan", "40"}

InitRow ==
    /\ pc = "call_row"
    /\ args \in {<<c, p, q>> :
                     c \in CustomerCells, p \in ProductCells, q \in QuantityCells}
    /\ result = <<>>
    /\ all_files = <<>>
    /\ fi = 0
    /\ si = 0
    /\ all_data = <<>>
    /\ df_raw = <<>>
    /\ gi = 0
    /\ summary_list = <<>>
    /\ df_summary = <<>>
    /\ report = NoReport

\* lines 124-154
CallRowRecords ==
    /\ pc = "call_row"
    /\ result' = RowRecords(args, 1, 2, 3, toordinal(ASSUMED_YEAR, 1, 8),
                            "a.xlsx - JAN 8")
    /\ pc' = "returned"
    /\ UNCHANGED <<all_files, fi, si, all_data, df_raw, gi, summary_list,
                   df_summary, report, args>>

SpecRow == InitRow /\ [][CallRowRecords]_vars

\* the codes the mapping can give
CanonicalCodes == {PRODUCT_MAP[n][2] : n \in 1..Len(PRODUCT_MAP)}

\* C2: a product cell that already holds a canonical code (LD, LD-Dyed, UR,
\* LP) comes out of the product normalisation unchanged.
C2_CanonicalIsFixedPoint ==
    (pc = "returned" /\ args[2] \in CanonicalCodes /\ result # <<>>)
        => result[1].Product = args[2]

(***************************************************************************)
(* Properties of the run.                                                  *)
(***************************************************************************)
AllData == {all_data[i] : i \in 1..Len(all_data)}

\* C1: every record process_files emits has finite gallons > 0, a non-empty
\* customer and a non-empty product.
C1_RecordsWellFormed ==
    \A r \in AllData :
        /\ r.Gallons.k = "fin" /\ r.Gallons.v > 0
        /\ r.Customer # ""
        /\ r.Product # ""

\* what a unit gives when taken alone: nothing when it fails
UnitRecords(fname, sheet) ==
    LET out == ProcessSheet(fname, sheet.sheet_name, sheet.df)
    IN IF out.raised THEN <<>> ELSE out.records

RECURSIVE SheetsRecords(_, _, _)
SheetsRecords(fname, sheets, i) ==
    IF i > Len(sheets) THEN <<>>
    ELSE UnitRecords(fname, sheets[i]) \o SheetsRecords(fname, sheets, i + 1)

RECURSIVE FilesRecords(_, _)
FilesRecords(files, i) ==
    IF i > Len(files) THEN <<>>
    ELSE (IF files[i].readable
          THEN SheetsRecords(files[i].name, files[i].sheets, 1) ELSE <<>>)
         \o FilesRecords(files, i + 1)

IngestionOver == pc \in {"extracted", "analyze", "group", "analyzed", "done", "no_data"}

\* C5: a unit that fails gives no record and takes none away from the other
\* units, the later sheets of its workbook included: the run's records are
\* those of every unit taken alone, in order.
C5_UnitFailureIsolated ==
    IngestionOver => all_data = FilesRecords(all_files, 1)

AnalysisStarted ==
    \/ pc \in {"analyze", "group", "analyzed", "done"}
    \/ summary_list # <<>>
    \/ df_summary # <<>>
    \/ report.written

C8_State ==
    /\ AnalysisStarted =>
           /\ fi > Len(all_files)
           /\ all_data # <<>>
           /\ df_raw = all_data
    /\ pc = "no_data" => all_data = <<>> /\ ~AnalysisStarted
    /\ pc = "done" => report.written /\ report.RawData = all_data

C8_Step ==
    /\ (pc = "extracted" /\ all_data = <<>>) => pc' = "no_data"
    /\ pc = "no_data" => pc' = "no_data"

\* C8: a run that accepts no record ends in the "no valid data" outcome
\* with no analysis output and no report; analysis and report come only
\* after the ingestion of every unit is over, with at least one record.
C8_NoDataSuppressesReport == []C8_State /\ [][C8_Step]_vars

\* a run over a workbook whose sheets all failed has ended with no data
C8_Witness ==
    /\ pc = "no_data"
    /\ \E i \in 1..Len(all_files) :
           all_files[i].readable /\ Len(all_files[i].sheets) >= 1

=============================================================================
